---- MODULE Spec2Model ----
(***************************************************************************)
(* Model of energy.rs: energy units (Joule, Calorie, BTU), fuel kinds,     *)
(* fuel containers and the energy providers, with Rust's u32 / u8          *)
(* arithmetic kept at its width.                                           *)
(*                                                                         *)
(* A u32 is a little-endian sequence of 15-bit limbs with no leading zero  *)
(* limb (the model checker's own integers stop at 2^31 - 1, so neither a   *)
(* u32 nor the product of two of them fits in one).                        *)
(* The same limb sequences, of any length, are the mathematical naturals   *)
(* the properties are stated in.                                           *)
(***************************************************************************)
EXTENDS Integers, Sequences, FiniteSets, TLC

VARIABLES
    overflow_checks, \* build profile: TRUE = debug (overflow panics), FALSE = release (wraps)
    DECAY,           \* const generic of the InternalCombustion instance
    EFFICIENCY,      \* const generic of the OmniGenerator instance
    e0,              \* argument the InternalCombustion instance was built with
    efficiency,      \* InternalCombustion.efficiency (u8)
    count,           \* InternalCombustion.count (u32)
    panicked,        \* a call panicked: the thread unwound, nothing runs after it
    calls,           \* number of provide_energy calls made so far (history)
    lastDrop,        \* call number of the latest efficiency reduction, 0 if none (history)
    gap,             \* calls between the two latest reductions, 0 if fewer than two (history)
    call,            \* the latest operation: its name, arguments and result
    probe,           \* the fuel container whose results `first` remembers (history)
    first            \* result of the first probe call of each stateless provider (history)

vars == <<overflow_checks, DECAY, EFFICIENCY, e0, efficiency, count, panicked,
          calls, lastDrop, gap, call, probe, first>>

----------------------------------------------------------------------------
(* Naturals as limb sequences *)

Limb == 2^15

RECURSIVE Norm(_)
Norm(x) == IF x # <<>> /\ x[Len(x)] = 0 THEN Norm(SubSeq(x, 1, Len(x) - 1)) ELSE x

\* n is a model-checker integer (below 2^31)
FromInt(n) == Norm(<<n % Limb, (n \div Limb) % Limb, n \div (Limb * Limb)>>)

LimbAt(x, i) == IF i <= Len(x) THEN x[i] ELSE 0

RECURSIVE AddFrom(_, _, _, _)
AddFrom(x, y, i, carry) ==
    IF i > Len(x) /\ i > Len(y)
    THEN (IF carry = 0 THEN <<>> ELSE <<carry>>)
    ELSE LET s == LimbAt(x, i) + LimbAt(y, i) + carry
         IN  <<s % Limb>> \o AddFrom(x, y, i + 1, s \div Limb)

NatAdd(x, y) == Norm(AddFrom(x, y, 1, 0))

\* floor(x / k) for a small divisor k, from the most significant limb down;
\* DivFrom returns the quotient limbs of x[1..i]
RECURSIVE DivFrom(_, _, _, _)
DivFrom(x, k, i, rem) ==
    IF i = 0 THEN <<>>
    ELSE LET cur == rem * Limb + x[i]
         IN  DivFrom(x, k, i - 1, cur % k) \o <<cur \div k>>

NatDiv(x, k) == Norm(DivFrom(x, k, Len(x), 0))

\* x * k for one limb k
RECURSIVE MulFrom(_, _, _, _)
MulFrom(x, k, i, carry) ==
    IF i > Len(x)
    THEN (IF carry = 0 THEN <<>> ELSE <<carry>>)
    ELSE LET p == x[i] * k + carry
         IN  <<p % Limb>> \o MulFrom(x, k, i + 1, p \div Limb)

\* x * Limb^n
RECURSIVE Shift(_, _)
Shift(x, n) == IF n = 0 \/ x = <<>> THEN x ELSE Shift(<<0>> \o x, n - 1)

RECURSIVE MulAcc(_, _, _)
MulAcc(x, y, i) ==
    IF i > Len(y) THEN <<>>
    ELSE NatAdd(Shift(Norm(MulFrom(x, y[i], 1, 0)), i - 1), MulAcc(x, y, i + 1))

NatMul(x, y) == MulAcc(x, y, 1)

\* x < 2^32
FitsU32(x) == Len(x) <= 2 \/ (Len(x) = 3 /\ x[3] < 4)

\* x mod 2^32
Wrap32(x) == IF Len(x) <= 2 THEN x ELSE Norm(<<x[1], x[2], x[3] % 4>>)

U32_MAX == <<Limb - 1, Limb - 1, 3>>

----------------------------------------------------------------------------
(* u32 arithmetic: a value, or the panic of a build with overflow checks *)

U32(x) == [ok |-> TRUE, v |-> x]

PANIC == [ok |-> FALSE, v |-> <<>>]

\* the result of a u32 operation whose mathematical value is x
Checked(x) ==
    IF FitsU32(x) THEN U32(x)
    ELSE IF overflow_checks THEN PANIC ELSE U32(Wrap32(x))

U32Mul(p, q) == IF p.ok /\ q.ok THEN Checked(NatMul(p.v, q.v)) ELSE PANIC

U32Add(p, q) == IF p.ok /\ q.ok THEN Checked(NatAdd(p.v, q.v)) ELSE PANIC

\* division by a non-zero literal
U32Div(p, k) == IF p.ok THEN U32(NatDiv(p.v, k)) ELSE PANIC

\* 100 - (C as u32) for a u8 C: below zero it panics or wraps to 2^32 - (C - 100)
HundredMinus(C) ==
    IF C <= 100 THEN U32(FromInt(100 - C))
    ELSE IF overflow_checks THEN PANIC
    ELSE U32(<<Limb - 1 - (C - 101), Limb - 1, 3>>)

----------------------------------------------------------------------------
(* Energy units: a quantity is a unit and a u32 magnitude *)

Quantity(unit, val) == [unit |-> unit, val |-> val]

JouleToBTU(j) == U32Div(j, 1055)

BTUToJoule(b) == U32Mul(b, U32(FromInt(1055)))

CalorieToBTU(c) == U32Div(c, 251)

BTUToCalorie(b) == U32Mul(b, U32(FromInt(251)))

\* Into<BTU> of the quantity's own unit
Into(q) ==
    CASE q.unit = "Joule"   -> JouleToBTU(q.val)
      [] q.unit = "Calorie" -> CalorieToBTU(q.val)
      [] q.unit = "BTU"     -> q.val

\* From<BTU> of the given unit
From(unit, b) ==
    CASE unit = "Joule"   -> Quantity("Joule", BTUToJoule(b))
      [] unit = "Calorie" -> Quantity("Calorie", BTUToCalorie(b))
      [] unit = "BTU"     -> Quantity("BTU", b)

----------------------------------------------------------------------------
(* Fuel kinds: <<"Diesel">>, <<"LithiumBattery">>, <<"Uranium">>,          *)
(* <<"Mixed", F1, F2>> and <<"CustomMixed", C, F1, F2>>                    *)

Diesel == <<"Diesel">>

LithiumBattery == <<"LithiumBattery">>

Uranium == <<"Uranium">>

Mixed(F1, F2) == <<"Mixed", F1, F2>>

CustomMixed(C, F1, F2) == <<"CustomMixed", C, F1, F2>>

\* Fuel::Output
Output(F) ==
    CASE F[1] = "Diesel"         -> "Joule"
      [] F[1] = "LithiumBattery" -> "Calorie"
      [] F[1] = "Uranium"        -> "Joule"
      [] F[1] = "Mixed"          -> "BTU"
      [] F[1] = "CustomMixed"    -> "BTU"

IsRenewable(F) == F[1] = "LithiumBattery"

Diesel_energy_density == From("Joule", U32(FromInt(100)))

LithiumBattery_energy_density == From("Calorie", U32(FromInt(200)))

Uranium_energy_density == From("Joule", U32(FromInt(1000)))

\* Mixed::energy_density halving each density before the sum
Mixed_energy_density_halves_first(d1, d2) ==
    From("BTU", U32Add(U32Div(d1, 2), U32Div(d2, 2)))

\* (d1 + d2) / 2 on the two densities in BTU
Mixed_energy_density(d1, d2) == From("BTU", U32Div(U32Add(d1, d2), 2))

\* CustomMixed::energy_density dividing the weighted sum once
CustomMixed_energy_density_single_division(C, d1, d2) ==
    From("BTU", U32Div(U32Add(U32Mul(d1, U32(FromInt(C))),
                              U32Mul(d2, HundredMinus(C))), 100))

\* (d1 * C / 100) + (d2 * (100 - C) / 100) on the two densities in BTU
CustomMixed_energy_density(C, d1, d2) ==
    From("BTU", U32Add(U32Div(U32Mul(d1, U32(FromInt(C))), 100),
                       U32Div(U32Mul(d2, HundredMinus(C)), 100)))

\* Fuel::energy_density
RECURSIVE energy_density(_)
energy_density(F) ==
    CASE F[1] = "Diesel"         -> Diesel_energy_density
      [] F[1] = "LithiumBattery" -> LithiumBattery_energy_density
      [] F[1] = "Uranium"        -> Uranium_energy_density
      [] F[1] = "Mixed"          ->
            Mixed_energy_density(Into(energy_density(F[2])), Into(energy_density(F[3])))
      [] F[1] = "CustomMixed"    ->
            CustomMixed_energy_density(F[2], Into(energy_density(F[3])),
                                       Into(energy_density(F[4])))

\* FuelContainer::<F>::new(amount)
FuelContainer(F, amount) == [fuel |-> F, amount |-> amount]

----------------------------------------------------------------------------
(* ProvideEnergy: the two default methods and the providers *)

\* provide_energy_with_efficiency without the saturation at 100
provide_energy_with_efficiency_unsaturated(f, e) ==
    LET energy == U32Div(U32Mul(U32Mul(U32(f.amount), Into(energy_density(f.fuel))),
                                U32(FromInt(e))), 100)
    IN  From(Output(f.fuel), energy)

provide_energy_with_efficiency(f, e) ==
    LET real_e == IF e > 100 THEN 100 ELSE e
        energy == U32Div(U32Mul(U32Mul(U32(f.amount), Into(energy_density(f.fuel))),
                                U32(FromInt(real_e))), 100)
    IN  From(Output(f.fuel), energy)

provide_energy_ideal(f) ==
    LET energy == U32Mul(U32(f.amount), Into(energy_density(f.fuel)))
    IN  From(Output(f.fuel), energy)

\* NuclearReactor::provide_energy losing a percent with every call made
NuclearReactor_provide_energy_decaying(f) ==
    provide_energy_with_efficiency(f, 99 - calls)

NuclearReactor_provide_energy(f) == provide_energy_with_efficiency(f, 99)

OmniGenerator_provide_energy(f) == provide_energy_with_efficiency(f, EFFICIENCY)

GreenEngine_provide_energy(f) == provide_energy_ideal(f)

BritishEngine_provide_energy(f) == provide_energy_ideal(f)

omni_80_energy(amount) ==
    Quantity("BTU", U32Div(U32Mul(U32(amount), U32(FromInt(80))), 100))

\* InternalCombustion::new(efficiency)
InternalCombustion_new(e) ==
    [efficiency |-> IF e > 100 THEN 100 ELSE e, count |-> 0]

\* Decay resetting when the incremented count reaches DECAY (>= for >)
Decay_at_DECAY(eff, cnt) ==
    LET c == cnt + 1
    IN  IF c >= DECAY
        THEN IF eff = 0
             THEN IF overflow_checks
                  THEN [efficiency |-> eff, count |-> 0, panic |-> TRUE, dropped |-> FALSE]
                  ELSE [efficiency |-> 255, count |-> 0, panic |-> FALSE, dropped |-> FALSE]
             ELSE [efficiency |-> eff - 1, count |-> 0, panic |-> FALSE, dropped |-> TRUE]
        ELSE [efficiency |-> eff, count |-> c, panic |-> FALSE, dropped |-> FALSE]

\* The counter and efficiency update at the head of
\* InternalCombustion::provide_energy. The u8 decrement of an efficiency of 0
\* panics (count is already reset by then) or wraps to 255.
Decay(eff, cnt) ==
    LET c == cnt + 1
    IN  IF c > DECAY
        THEN IF eff = 0
             THEN IF overflow_checks
                  THEN [efficiency |-> eff, count |-> 0, panic |-> TRUE, dropped |-> FALSE]
                  ELSE [efficiency |-> 255, count |-> 0, panic |-> FALSE, dropped |-> FALSE]
             ELSE [efficiency |-> eff - 1, count |-> 0, panic |-> FALSE, dropped |-> TRUE]
        ELSE [efficiency |-> eff, count |-> c, panic |-> FALSE, dropped |-> FALSE]

----------------------------------------------------------------------------
(* Inputs and bounds *)

MaxDecay == 3

MaxCalls == 9

MaxStatelessCalls == 4

InitialEfficiencies == {0, 1, 2, 100, 120, 255}

Efficiencies == {0, 1, 50, 99, 100, 101, 150, 255}

OmniEfficiencies == {0, 80, 100, 101, 255}

Coefficients == {25, 50, 75}

Amounts == {<<>>, FromInt(1), FromInt(10), FromInt(300000), U32_MAX}

BaseFuels == {Diesel, LithiumBattery, Uranium}

FuelKinds ==
    BaseFuels
    \cup {Mixed(F1, F2) : F1 \in BaseFuels, F2 \in BaseFuels}
    \cup {CustomMixed(C, F[1], F[2]) : C \in Coefficients, F \in BaseFuels \X BaseFuels}

SomeFuels == {Diesel, LithiumBattery, Mixed(Diesel, LithiumBattery)}

SomeAmounts == {<<>>, FromInt(10), FromInt(300000)}

StatelessProviders == {"NuclearReactor", "OmniGenerator", "GreenEngine", "BritishEngine"}

----------------------------------------------------------------------------
(* State *)

NoQuantity == Quantity("none", PANIC)

NoCall ==
    [op |-> "none", F1 |-> <<>>, F2 |-> <<>>, C |-> 0, amount |-> <<>>, e |-> 0,
     out |-> NoQuantity]

NoFirst == [p \in StatelessProviders |-> [at |-> 0, out |-> NoQuantity]]

\* the record of a provider call on container f
ProviderCall(name, f, e, out) ==
    [op |-> name, F1 |-> f.fuel, F2 |-> <<>>, C |-> 0, amount |-> f.amount, e |-> e,
     out |-> out]

\* the record of a call of a function on fuel kinds
DensityCall(name, C, F1, F2, out) ==
    [op |-> name, F1 |-> F1, F2 |-> F2, C |-> C, amount |-> <<>>, e |-> 0, out |-> out]

\* the fuel container of the latest call
container == FuelContainer(call.F1, call.amount)

----------------------------------------------------------------------------
(* The InternalCombustion instance: new(e0), then provide_energy calls *)

Init ==
    /\ overflow_checks \in BOOLEAN
    /\ DECAY \in 0..MaxDecay
    /\ EFFICIENCY = 80
    /\ e0 \in InitialEfficiencies
    /\ efficiency = InternalCombustion_new(e0).efficiency
    /\ count = InternalCombustion_new(e0).count
    /\ panicked = FALSE
    /\ calls = 0
    /\ lastDrop = 0
    /\ gap = 0
    /\ call = NoCall
    /\ probe = FuelContainer(Diesel, <<>>)
    /\ first = NoFirst

InternalCombustion_provide_energy(F, amount) ==
    LET f == FuelContainer(F, amount)
        d == Decay(efficiency, count)
        out == IF d.panic THEN Quantity(Output(F), PANIC)
               ELSE provide_energy_with_efficiency(f, d.efficiency)
    IN  /\ ~panicked
        /\ calls < MaxCalls
        /\ efficiency' = d.efficiency
        /\ count' = d.count
        /\ panicked' = ~out.val.ok
        /\ calls' = calls + 1
        /\ lastDrop' = IF d.dropped THEN calls + 1 ELSE lastDrop
        /\ gap' = IF d.dropped /\ lastDrop > 0 THEN calls + 1 - lastDrop ELSE gap
        /\ call' = ProviderCall("InternalCombustion", f, d.efficiency, out)
        /\ UNCHANGED <<overflow_checks, DECAY, EFFICIENCY, e0, probe, first>>

Next ==
    \E F \in SomeFuels, amount \in SomeAmounts : InternalCombustion_provide_energy(F, amount)

Spec == Init /\ [][Next]_vars

----------------------------------------------------------------------------
(* The stateless providers: any sequence of provide_energy calls *)

\* a provide_energy call of a provider without fields: nothing of the program
\* changes; the histories record the call
Provide(name, f, e, out) ==
    /\ ~panicked
    /\ calls < MaxStatelessCalls
    /\ panicked' = ~out.val.ok
    /\ calls' = calls + 1
    /\ call' = ProviderCall(name, f, e, out)
    /\ first' = IF f = probe /\ first[name].at = 0
                THEN [first EXCEPT ![name] = [at |-> calls + 1, out |-> out]]
                ELSE first
    /\ UNCHANGED <<overflow_checks, DECAY, EFFICIENCY, e0, efficiency, count,
                   lastDrop, gap, probe>>

NuclearReactor(F, amount) ==
    LET f == FuelContainer(F, amount)
    IN  Provide("NuclearReactor", f, 99, NuclearReactor_provide_energy(f))

OmniGenerator(F, amount) ==
    LET f == FuelContainer(F, amount)
    IN  Provide("OmniGenerator", f, EFFICIENCY, OmniGenerator_provide_energy(f))

GreenEngine(F, amount) ==
    LET f == FuelContainer(F, amount)
    IN  /\ IsRenewable(F)
        /\ Provide("GreenEngine", f, 100, GreenEngine_provide_energy(f))

BritishEngine(F, amount) ==
    LET f == FuelContainer(F, amount)
    IN  /\ Output(F) = "BTU"
        /\ Provide("BritishEngine", f, 100, BritishEngine_provide_energy(f))

InitStateless ==
    /\ overflow_checks \in BOOLEAN
    /\ DECAY = 0
    /\ EFFICIENCY \in {80, 120}
    /\ e0 = 0
    /\ efficiency = 0
    /\ count = 0
    /\ panicked = FALSE
    /\ calls = 0
    /\ lastDrop = 0
    /\ gap = 0
    /\ call = NoCall
    /\ probe \in {FuelContainer(F, amount) : F \in SomeFuels, amount \in SomeAmounts \ {<<>>}}
    /\ first = NoFirst

NextStateless ==
    \/ \E F \in SomeFuels, amount \in SomeAmounts \ {<<>>} : NuclearReactor(F, amount)
    \/ \E F \in SomeFuels, amount \in SomeAmounts \ {<<>>} : OmniGenerator(F, amount)
    \/ \E F \in SomeFuels, amount \in SomeAmounts \ {<<>>} : GreenEngine(F, amount)
    \/ \E F \in SomeFuels, amount \in SomeAmounts \ {<<>>} : BritishEngine(F, amount)

SpecStateless == InitStateless /\ [][NextStateless]_vars

----------------------------------------------------------------------------
(* The functions, each applied once to inputs drawn from the input sets *)

Returns(c) ==
    /\ call' = c
    /\ UNCHANGED <<overflow_checks, DECAY, EFFICIENCY, e0, efficiency, count, panicked,
                   calls, lastDrop, gap, probe, first>>

ProvideEnergyWithEfficiency(F, amount, e) ==
    LET f == FuelContainer(F, amount)
    IN  Returns(ProviderCall("provide_energy_with_efficiency", f, e,
                             provide_energy_with_efficiency(f, e)))

ProvideEnergyIdeal(F, amount) ==
    LET f == FuelContainer(F, amount)
    IN  Returns(ProviderCall("provide_energy_ideal", f, 100, provide_energy_ideal(f)))

MixedDensity(F1, F2) ==
    Returns(DensityCall("Mixed::energy_density", 0, F1, F2, energy_density(Mixed(F1, F2))))

CustomMixedDensity(C, F1, F2) ==
    Returns(DensityCall("CustomMixed::energy_density", C, F1, F2,
                        energy_density(CustomMixed(C, F1, F2))))

Omni80(amount) ==
    Returns([NoCall EXCEPT !.op = "omni_80_energy", !.amount = amount,
                           !.out = omni_80_energy(amount)])

New(e) ==
    /\ e0' = e
    /\ efficiency' = InternalCombustion_new(e).efficiency
    /\ count' = InternalCombustion_new(e).count
    /\ call' = [NoCall EXCEPT !.op = "InternalCombustion::new", !.e = e]
    /\ UNCHANGED <<overflow_checks, DECAY, EFFICIENCY, panicked, calls, lastDrop, gap,
                   probe, first>>

InitFn ==
    /\ overflow_checks \in BOOLEAN
    /\ DECAY = 0
    /\ EFFICIENCY \in OmniEfficiencies
    /\ e0 = 0
    /\ efficiency = 0
    /\ count = 0
    /\ panicked = FALSE
    /\ calls = 0
    /\ lastDrop = 0
    /\ gap = 0
    /\ call = NoCall
    /\ probe = FuelContainer(Diesel, <<>>)
    /\ first = NoFirst

\* nothing has been applied yet
Fresh == call.op = "none"

NextFn ==
    \/ Fresh /\ \E F \in FuelKinds, amount \in Amounts, e \in Efficiencies :
                   ProvideEnergyWithEfficiency(F, amount, e)
    \/ Fresh /\ \E F \in FuelKinds, amount \in Amounts : ProvideEnergyIdeal(F, amount)
    \/ Fresh /\ \E F \in FuelKinds, amount \in Amounts : OmniGenerator(F, amount)
    \/ Fresh /\ \E F1 \in FuelKinds, F2 \in FuelKinds : MixedDensity(F1, F2)
    \/ Fresh /\ \E F1 \in FuelKinds, F2 \in FuelKinds : CustomMixedDensity(50, F1, F2)
    \/ Fresh /\ \E C \in Coefficients, F1 \in BaseFuels, F2 \in BaseFuels :
                   CustomMixedDensity(C, F1, F2)
    \/ Fresh /\ \E amount \in Amounts : Omni80(amount)
    \/ Fresh /\ \E e \in Efficiencies : New(e)

SpecFn == InitFn /\ [][NextFn]_vars

----------------------------------------------------------------------------
(* Properties *)

Min(x, y) == IF x <= y THEN x ELSE y

IsOdd(x) == x # <<>> /\ x[1] % 2 = 1

\* the density of fuel kind F in its own output unit, as a natural
NativeDensity(F) == energy_density(F).val.v

\* the density of fuel kind F in BTU, as a natural
BTUDensity(F) == Into(energy_density(F)).v

\* floor(a * d * e / 100) over the naturals, d in the fuel's output unit
ExactEnergy(f, e) ==
    NatDiv(NatMul(NatMul(f.amount, NativeDensity(f.fuel)), FromInt(e)), 100)

\* neither a * d * e on the BTU density nor the result leaves the u32 range
InRange(f, e) ==
    /\ FitsU32(NatMul(f.amount, BTUDensity(f.fuel)))
    /\ FitsU32(NatMul(NatMul(f.amount, BTUDensity(f.fuel)), FromInt(e)))
    /\ FitsU32(ExactEnergy(f, e))

\* C1: on an InternalCombustion<DECAY> built with new(e0), each of the first
\* DECAY calls of provide_energy returns the energy at efficiency min(e0, 100)
\* and call DECAY + 1 returns the energy at efficiency min(e0, 100) - 1; for
\* DECAY = 3, e0 = 120 and 10 units of Diesel that is 1000, 1000, 1000, 990 BTU.
C1_FirstCallsThenOneLess ==
    call.op = "InternalCombustion" =>
        /\ calls \in 1..DECAY =>
              call.out = provide_energy_with_efficiency(container, Min(e0, 100))
        /\ calls = DECAY + 1 =>
              /\ Min(e0, 100) - 1 >= 0
              /\ call.out = provide_energy_with_efficiency(container, Min(e0, 100) - 1)
        /\ (DECAY = 3 /\ e0 = 120 /\ container = FuelContainer(Diesel, FromInt(10))) =>
              /\ calls \in 1..3 => Into(call.out) = U32(FromInt(1000))
              /\ calls = 4 => Into(call.out) = U32(FromInt(990))

\* C2: two consecutive reductions of the stored efficiency of an
\* InternalCombustion<DECAY> are exactly DECAY calls of provide_energy apart
\* (stated for DECAY >= 1, where "every DECAY calls" is a period).
C2_ReductionsDecayCallsApart == (DECAY >= 1 /\ gap # 0) => gap = DECAY

\* C3: the stored efficiency of an InternalCombustion stays within 0..100
\* after new(e0) and any number of provide_energy calls.
C3_EfficiencyWithin0To100 == efficiency \in 0..100

\* C4: for every fuel kind, amount a and efficiency e <= 100,
\* provide_energy_with_efficiency returns floor(a * d * e / 100) in the fuel's
\* output unit, d being the fuel's density in that unit (stated where that
\* value is a u32 at all).
C4_ExactFloor ==
    (call.op = "provide_energy_with_efficiency" /\ call.e <= 100
        /\ FitsU32(ExactEnergy(container, call.e))) =>
        call.out = Quantity(Output(call.F1), U32(ExactEnergy(container, call.e)))

\* C5: an efficiency above 100 gives what efficiency 100 gives: in
\* provide_energy_with_efficiency, in OmniGenerator<EFFICIENCY> and in
\* InternalCombustion::new.
C5_SaturatesAt100 ==
    /\ (call.op = "provide_energy_with_efficiency" /\ call.e > 100) =>
          call.out = provide_energy_with_efficiency(container, 100)
    /\ (call.op = "OmniGenerator" /\ EFFICIENCY > 100) =>
          call.out = provide_energy_with_efficiency(container, 100)
    /\ (call.op = "InternalCombustion::new" /\ call.e > 100) =>
          /\ efficiency = InternalCombustion_new(100).efficiency
          /\ count = InternalCombustion_new(100).count

C5_Witness ==
    /\ call.op = "provide_energy_with_efficiency"
    /\ call.e = 150
    /\ container = FuelContainer(Diesel, FromInt(10))
    /\ call.out = Quantity("Joule", U32(FromInt(1055000)))

C7_Omni80IsTheGenerator ==
    (call.op = "omni_80_energy" /\ EFFICIENCY = 80) =>
        call.out = OmniGenerator_provide_energy(
                       FuelContainer(Mixed(Diesel, LithiumBattery), call.amount))

\* C8: Mixed<F1, F2> has output unit BTU and density
\* (density(F1) in BTU + density(F2) in BTU) / 2, integer division: 150 for
\* Diesel and LithiumBattery, so BritishEngine on 10 units of it yields 1500.
C8_MixedIsBTUAverage ==
    /\ call.op = "Mixed::energy_density" =>
          /\ Output(Mixed(call.F1, call.F2)) = "BTU"
          /\ call.out = Quantity("BTU",
                 U32(NatDiv(NatAdd(BTUDensity(call.F1), BTUDensity(call.F2)), 2)))
          /\ (call.F1 = Diesel /\ call.F2 = LithiumBattery) =>
                call.out.val.v = FromInt(150)
    /\ BritishEngine_provide_energy(
           FuelContainer(Mixed(Diesel, LithiumBattery), FromInt(10)))
         = Quantity("BTU", U32(FromInt(1500)))

C8_Witness ==
    /\ call.op = "Mixed::energy_density"
    /\ call.F1 = Diesel
    /\ call.F2 = LithiumBattery
    /\ call.out = Quantity("BTU", U32(FromInt(150)))

\* C9: NuclearReactor, OmniGenerator, GreenEngine and BritishEngine are
\* stateless: after any earlier calls, a call on a container of amount a of
\* fuel kind F returns what the first such call returned; within the u32 range
\* that is the energy at 99% for NuclearReactor, at the fixed EFFICIENCY for
\* OmniGenerator, and the ideal a * d for GreenEngine and BritishEngine.
C9_StatelessProviders ==
    call.op \in StatelessProviders =>
        /\ container = probe =>
              /\ first[call.op].at \in 1..calls
              /\ call.out = first[call.op].out
        /\ (call.op = "NuclearReactor" /\ InRange(container, 99)) =>
              call.out = Quantity(Output(call.F1), U32(ExactEnergy(container, 99)))
        /\ (call.op = "OmniGenerator" /\ InRange(container, Min(EFFICIENCY, 100))) =>
              call.out = Quantity(Output(call.F1),
                                  U32(ExactEnergy(container, Min(EFFICIENCY, 100))))
        /\ (call.op \in {"GreenEngine", "BritishEngine"}
              /\ FitsU32(NatMul(call.amount, NativeDensity(call.F1)))) =>
              call.out = Quantity(Output(call.F1),
                                  U32(NatMul(call.amount, NativeDensity(call.F1))))

C9_Witness ==
    /\ call.op = "NuclearReactor"
    /\ container = probe
    /\ container = FuelContainer(Diesel, FromInt(10))
    /\ first["NuclearReactor"].at < calls
    /\ first["OmniGenerator"].at \in 1..(calls - 1)
    /\ call.out = Quantity("Joule", U32(FromInt(1044450)))

\* C10: after k provide_energy calls on an InternalCombustion<DECAY> the
\* count is k mod (DECAY + 1), so between calls it is within 0..DECAY.
C10_CountIsCallsModDecayPlusOne ==
    /\ count = calls % (DECAY + 1)
    /\ count \in 0..DECAY

C10_Witness ==
    /\ DECAY = 3
    /\ calls = 6
    /\ count = 2
    /\ ~panicked

====
